---------------------------- MODULE Spec2Model ----------------------------
(***************************************************************************)
(* A model of the diabetes nutrition tracker (src/app.py,                  *)
(* src/agent/agent.py, src/agent/langchain_agent.py, src/agent/tools.py,   *)
(* src/list_models.py).                                                    *)
(*                                                                         *)
(* The module holds several specifications over one set of variables;      *)
(* each one moves only the variables of the component it is about:         *)
(*   SpecLog      the meal log file of agent/tools.py and its aggregates   *)
(*   SpecProfile  the profile file of agent/tools.py                       *)
(*   SpecExtract  extract_json as a pure function of the model output      *)
(*   SpecLLM      the entry points, their credential check, the LLM call   *)
(*                and estimate_macros_from_text                            *)
(*                                                                         *)
(* Quantities of carbohydrate are integers counting hundredths of a gram,  *)
(* so that round(x, 1) is a real operation (Round1) and not the identity.  *)
(***************************************************************************)
EXTENDS Integers, Sequences, FiniteSets

VARIABLES
    mealFile,     \* meal_log.json: [kind, items]
    mealBy,       \* history variable: who asked for each stored entry
    today,        \* the calendar day datetime.now() falls on
    appends,      \* number of log_meal calls made so far (bounded)
    logOut,       \* what the last Log Store operation returned
    sugarFile,    \* blood_sugar_log.json
    profileFile,  \* user_profile.json: [kind, profile]
    profOut,      \* what the last Profile Store operation returned
    text,         \* a model output handed to extract_json
    extOut,       \* what extract_json made of it
    entry,        \* the script that was started
    apiKey,       \* the environment variable GEMINI_API_KEY
    pc,           \* how far the script got
    constructs,   \* LLM clients whose construction was attempted
    requests,     \* requests to the LLM provider that were attempted
    estOut,       \* what the last estimate_macros_from_text call did
    estIn,        \* the description and the response of that call
    messages,     \* run_agent: the conversation history
    user_input    \* run_agent: what was typed last, stripped

logVars == <<mealFile, mealBy, today, appends, logOut, sugarFile>>
profVars == <<profileFile, profOut>>
extVars == <<text, extOut>>
chatVars == <<messages, user_input>>
llmVars == <<entry, apiKey, pc, constructs, requests, estOut, estIn, messages,
            user_input>>
vars == <<mealFile, mealBy, today, appends, logOut, sugarFile, profileFile,
          profOut,
          text, extOut, entry, apiKey, pc, constructs, requests, estOut,
          estIn, messages, user_input>>

---------------------------------------------------------------------------
(* Bounds of the model                                                     *)

MaxAppends == 2
MaxDay == 2
\* longest model output, in tokens
MaxTextLen == 5
\* most requests one run sends to the LLM provider
MaxRequests == 2

Users == {"u1", "u2"}
Days == 1 .. MaxDay
\* total_carbs values a caller logs: 10.0 g and 20.0 g
CarbVals == {1000, 2000}
\* carb_budget values: 28.0 g and 28.04 g
Budgets == {2800, 2804}

---------------------------------------------------------------------------
(* Numbers                                                                 *)

Max(a, b) == IF a >= b THEN a ELSE b

\* round(x, 1) on a non-negative quantity in hundredths: the nearest
\* multiple of ten hundredths; an exact tie goes to the even tenth.
RoundPos1(x) ==
    LET q == x \div 10
        r == x % 10
    IN  IF r < 5 THEN 10 * q
        ELSE IF r > 5 THEN 10 * (q + 1)
        ELSE IF q % 2 = 0 THEN 10 * q ELSE 10 * (q + 1)

\* round(x, 1): Python rounds symmetrically around zero.
Round1(x) == IF x >= 0 THEN RoundPos1(x) ELSE 0 - RoundPos1(0 - x)

\* A JSON value found in the total_carbs field: a number, or something
\* that is not a number (a string, null).
Num(n) == [num |-> TRUE, v |-> n]
NotNum == [num |-> FALSE, v |-> 0]

---------------------------------------------------------------------------
(* MealEntry and the meal log file                                         *)

MealFields == {"timestamp", "meal_type", "foods", "total_carbs", "notes"}
MealRequired == {"timestamp", "meal_type", "foods", "total_carbs"}

\* MealEntry(timestamp, meal_type, foods, total_carbs): notes defaults to "".
MealEntry(ts, carbs) ==
    [timestamp |-> ts, meal_type |-> "snack", foods |-> <<"food">>,
     total_carbs |-> carbs, notes |-> ""]

\* dataclasses.asdict: one key per field, same values.
asdict(meal) == [f \in MealFields |-> meal[f]]

\* MealEntry(**m) raises TypeError when a required key is missing or an
\* unknown key is present; it does not look at the values.
CanConstruct(m) == MealRequired \subseteq DOMAIN m /\ DOMAIN m \subseteq MealFields

MealFromDict(m) ==
    [f \in MealFields |-> IF f \in DOMAIN m THEN m[f] ELSE ""]

AbsentFile == [kind |-> "absent", items |-> <<>>]
CorruptFile == [kind |-> "corrupt", items |-> <<>>]
ListFile(items) == [kind |-> "list", items |-> items]

\* get_meal_history reads at most days * MealsPerDay trailing entries.
MealsPerDay == 3
\* get_daily_carbs_total asks for the last DefaultDays days.
DefaultDays == 30

\* s[-n:] for n > 0
LastN(s, n) == IF Len(s) <= n THEN s ELSE SubSeq(s, Len(s) - n + 1, Len(s))

get_meal_history(file, days) ==
    IF file.kind = "absent" THEN <<>>
    ELSE IF file.kind = "corrupt" THEN <<>>          \* json.JSONDecodeError
    ELSE LET tail == LastN(file.items, days * MealsPerDay)
         IN  IF \E i \in 1 .. Len(tail) : ~CanConstruct(tail[i])
             THEN <<>>                                \* TypeError
             ELSE [i \in 1 .. Len(tail) |-> MealFromDict(tail[i])]

\* The loop of get_daily_carbs_total: total += meal.total_carbs for each
\* meal whose timestamp starts with the target date.
RECURSIVE SumCarbs(_, _)
SumCarbs(meals, date) ==
    IF meals = <<>> THEN 0
    ELSE LET m == Head(meals)
         IN  (IF m.timestamp = date /\ m.total_carbs.num
                 THEN m.total_carbs.v ELSE 0)
             + SumCarbs(Tail(meals), date)

\* float + str raises TypeError, and nothing catches it.
AddRaises(meals, date) ==
    \E i \in 1 .. Len(meals) :
        meals[i].timestamp = date /\ ~meals[i].total_carbs.num

Returned(v) == [raised |-> FALSE, v |-> v]
Raised == [raised |-> TRUE, v |-> 0]

get_daily_carbs_total(file, date) ==
    LET meals == get_meal_history(file, DefaultDays)
    IN  IF AddRaises(meals, date) THEN Raised
        ELSE Returned(Round1(SumCarbs(meals, date)))

\* Mutant: the remaining budget without the clamp at zero.
get_carb_budget_remaining_unclamped(file, now, budget) ==
    LET daily == get_daily_carbs_total(file, now)
    IN  IF daily.raised THEN Raised
        ELSE Returned(Round1(budget - daily.v))

get_carb_budget_remaining(file, now, budget) ==
    LET daily == get_daily_carbs_total(file, now)
    IN  IF daily.raised THEN Raised
        ELSE Returned(Max(0, Round1(budget - daily.v)))

\* Mutant: an unparseable file is taken for an empty collection.
log_meal_corrupt_as_empty(file, meal) ==
    IF file.kind \in {"absent", "corrupt"}
        THEN [file |-> ListFile(<<asdict(meal)>>), ok |-> TRUE]
    ELSE [file |-> ListFile(Append(file.items, asdict(meal))), ok |-> TRUE]

\* The file log_meal leaves behind, and what it returns.
log_meal(file, meal) ==
    IF file.kind = "absent"
        THEN [file |-> ListFile(<<asdict(meal)>>), ok |-> TRUE]
    ELSE IF file.kind = "corrupt"
        THEN [file |-> file, ok |-> FALSE]           \* ValueError caught
    ELSE [file |-> ListFile(Append(file.items, asdict(meal))), ok |-> TRUE]

\* BloodSugarEntry and asdict of it; the reading is in mg/dL.
BloodSugarEntry(ts, glucose) ==
    [timestamp |-> ts, glucose_level |-> glucose, meal_type |-> "None", notes |-> ""]

\* Mutant: the new reading is put in front of the stored ones.
log_blood_sugar_prepending(file, e) ==
    IF e.glucose_level <= 0 THEN [file |-> file, ok |-> FALSE]
    ELSE IF file.kind = "absent" THEN [file |-> ListFile(<<e>>), ok |-> TRUE]
    ELSE IF file.kind = "corrupt" THEN [file |-> file, ok |-> FALSE]
    ELSE [file |-> ListFile(<<e>> \o file.items), ok |-> TRUE]

\* log_blood_sugar: the file it leaves behind and what it returns.
log_blood_sugar(file, e) ==
    IF e.glucose_level <= 0
        THEN [file |-> file, ok |-> FALSE]           \* ValueError caught
    ELSE IF file.kind = "absent"
        THEN [file |-> ListFile(<<e>>), ok |-> TRUE]
    ELSE IF file.kind = "corrupt"
        THEN [file |-> file, ok |-> FALSE]           \* JSONDecodeError caught
    ELSE [file |-> ListFile(Append(file.items, e)), ok |-> TRUE]


---------------------------------------------------------------------------
(* UserProfile and the profile file                                        *)

\* user_id values: empty, blank, two names, and a name typed with a
\* leading blank
UserIds == {"", " ", "u1", "u2", " u1"}
\* float("nan"), which float(input(...)) returns for the answer "nan": a
\* float that compares false with every number. It stands outside the
\* range of the other budgets and is compared only through Leq and Gt.
NaN == 0 - 1000000
Leq(x, y) == x # NaN /\ y # NaN /\ x <= y
Gt(x, y) == x # NaN /\ y # NaN /\ x > y

\* carb_budget values: -1.0, 0.0, 28.0, 28.04 g and nan
BudgetInputs == {-100, 0, 2800, 2804, NaN}

UserProfile(uid, budget) ==
    [user_id |-> uid, diabetes_type |-> "None", general_goals |-> <<"Weight loss">>,
     carb_budget |-> budget]

NoProfile == UserProfile("", 0)

\* user_profile.json: absent, not JSON, JSON without UserProfile's keys, or
\* a profile as json.dump(asdict(profile)) writes it.
AbsentProfile == [kind |-> "absent", profile |-> NoProfile]
InvalidJsonProfile == [kind |-> "invalid_json", profile |-> NoProfile]
WrongKeysProfile == [kind |-> "wrong_keys", profile |-> NoProfile]
StoredProfile(p) == [kind |-> "profile", profile |-> p]

\* str.strip() of the user ids of the model
Strip(uid) == IF uid = " " THEN "" ELSE IF uid = " u1" THEN "u1" ELSE uid

\* What load_user_profile does: ret is "none" (None), "profile" or "raise".
LoadResult(ret, p) == [ret |-> ret, profile |-> p]

\* Mutant: json.JSONDecodeError is not caught.
load_user_profile_raising(file) ==
    IF file.kind = "absent" THEN LoadResult("none", NoProfile)
    ELSE IF file.kind = "invalid_json" THEN LoadResult("raise", NoProfile)
    ELSE IF file.kind = "wrong_keys" THEN LoadResult("raise", NoProfile)
    ELSE LoadResult("profile", file.profile)

load_user_profile(file) ==
    IF file.kind = "absent" THEN LoadResult("none", NoProfile)
    ELSE IF file.kind = "invalid_json"
        THEN LoadResult("none", NoProfile)            \* JSONDecodeError caught
    ELSE IF file.kind = "wrong_keys"
        THEN LoadResult("raise", NoProfile)           \* TypeError, not caught
    ELSE LoadResult("profile", file.profile)

\* save_user_profile: the file it leaves behind and whether it raised.
save_user_profile(file, p) ==
    IF Strip(p.user_id) = "" THEN [file |-> file, raised |-> TRUE]
    ELSE IF Leq(p.carb_budget, 0) THEN [file |-> file, raised |-> TRUE]
    ELSE [file |-> StoredProfile(p), raised |-> FALSE]

\* get_or_create_user_profile with the answers create_user_profile reads
\* from the terminal.
get_or_create_user_profile(file, uid, budget) ==
    LET got == load_user_profile(file)
    IN  IF got.ret = "raise" THEN [file |-> file, ret |-> "raise", profile |-> NoProfile]
        ELSE IF got.ret = "profile"
            THEN [file |-> file, ret |-> "profile", profile |-> got.profile]
        ELSE LET p == UserProfile(Strip(uid), budget)
                 saved == save_user_profile(file, p)
             IN  IF saved.raised
                 THEN [file |-> file, ret |-> "raise", profile |-> NoProfile]
                 ELSE [file |-> saved.file, ret |-> "profile", profile |-> p]

NoProfOut == [op |-> "none", ret |-> "none", profile |-> NoProfile]

---------------------------------------------------------------------------
(* extract_json (src/app.py and src/agent/agent.py hold the same code)     *)
(*                                                                         *)
(* A model output is a sequence of tokens, each standing for a fixed       *)
(* piece of text:                                                          *)
(*   "{" "}"   the braces                                                  *)
(*   " "       white space (a blank, a newline)                            *)
(*   "n"       the word null: a JSON scalar on its own, and otherwise      *)
(*             text like any other (prose around the JSON)                 *)
(*   "F"       a bare fence ```                                            *)
(*   "Fj"      a fence with the lower-case label, ```json                  *)
(*   "FJ"      a fence with the label in another letter case, ```JSON      *)

Tokens == {"{", "}", " ", "n", "F", "Fj", "FJ"}

\* ``` at the start of the token: what the closing ``` of the pattern matches
Fences == {"F", "Fj", "FJ"}
\* ```json under re.IGNORECASE
JsonFences == {"Fj", "FJ"}

RECURSIVE LStrip(_)
LStrip(t) == IF t # <<>> /\ Head(t) = " " THEN LStrip(Tail(t)) ELSE t

RECURSIVE RStrip(_)
RStrip(t) ==
    IF t # <<>> /\ t[Len(t)] = " " THEN RStrip(SubSeq(t, 1, Len(t) - 1)) ELSE t

\* str.strip()
StripText(t) == RStrip(LStrip(t))

\* \s* from position i: the first position at or after i that holds no
\* white space (Len(t) + 1 when there is none).
RECURSIVE SkipWs(_, _)
SkipWs(t, i) == IF i <= Len(t) /\ t[i] = " " THEN SkipWs(t, i + 1) ELSE i

\* The scanner of json.loads: a value starts at position i (white space
\* skipped); the result is the position after the value, or 0 on a syntax
\* error. With these tokens the only values are null and the empty object
\* (braces with nothing but white space between them).
ScanValue(t, i) ==
    LET p == SkipWs(t, i)
    IN  IF p > Len(t) THEN 0
        ELSE IF t[p] = "n" THEN p + 1
        ELSE IF t[p] # "{" THEN 0
        ELSE LET q == SkipWs(t, p + 1)
             IN  IF q <= Len(t) /\ t[q] = "}" THEN q + 1 ELSE 0

\* json.loads: "object", "scalar", or "error" (json.JSONDecodeError: a
\* syntax error, or extra data after the value).
json_loads(t) ==
    LET p == SkipWs(t, 1)
        r == ScanValue(t, 1)
    IN  IF r = 0 THEN "error"
        ELSE IF SkipWs(t, r) <= Len(t) THEN "error"
        ELSE IF t[p] = "{" THEN "object" ELSE "scalar"

NoMatch == [found |-> FALSE, lo |-> 0, hi |-> 0]
Match(lo, hi) == [found |-> TRUE, lo |-> lo, hi |-> hi]

\* \{.*?\}\s*```  from the brace at p: the nearest "}" at or after q that
\* is followed by optional white space and a fence.
RECURSIVE LazyClose(_, _)
LazyClose(t, q) ==
    IF q > Len(t) THEN 0
    ELSE IF t[q] = "}" /\ SkipWs(t, q + 1) <= Len(t) /\ t[SkipWs(t, q + 1)] \in Fences
        THEN q
    ELSE LazyClose(t, q + 1)

\* The whole pattern ```json\s*(\{.*?\})\s*``` tried at position i.
FencedAt(t, i) ==
    IF t[i] \notin JsonFences THEN NoMatch
    ELSE LET p == SkipWs(t, i + 1)
         IN  IF p > Len(t) \/ t[p] # "{" THEN NoMatch
             ELSE LET q == LazyClose(t, p + 1)
                  IN  IF q = 0 THEN NoMatch ELSE Match(p, q)

\* re.search: the match at the leftmost position that has one.
RECURSIVE SearchFenced(_, _)
SearchFenced(t, i) ==
    IF i > Len(t) THEN NoMatch
    ELSE IF FencedAt(t, i).found THEN FencedAt(t, i)
    ELSE SearchFenced(t, i + 1)

RECURSIVE FirstOpen(_, _)
FirstOpen(t, i) ==
    IF i > Len(t) THEN 0 ELSE IF t[i] = "{" THEN i ELSE FirstOpen(t, i + 1)

RECURSIVE LastClose(_, _)
LastClose(t, i) ==
    IF i < 1 THEN 0 ELSE IF t[i] = "}" THEN i ELSE LastClose(t, i - 1)

\* re.search(r"(\{.*\})", text, re.DOTALL): from the first "{" to the last
\* "}" after it.
SearchBraces(t) ==
    LET p == FirstOpen(t, 1)
        q == LastClose(t, Len(t))
    IN  IF p = 0 \/ q <= p THEN NoMatch ELSE Match(p, q)

\* What extract_json did: kind "empty" (ValueError "Empty model output."),
\* "parse_error" (json.JSONDecodeError) or "value"; the step that parsed
\* (1 fenced block, 2 brace span, 3 whole text; 0 when none was tried), the
\* span of the trimmed text handed to json.loads, and what it parsed to.
ExtResult(kind, step, lo, hi, type) ==
    [kind |-> kind, step |-> step, lo |-> lo, hi |-> hi, type |-> type]

Parsed(t, step, lo, hi) ==
    LET v == json_loads(SubSeq(t, lo, hi))
    IN  IF v = "error" THEN ExtResult("parse_error", step, lo, hi, "none")
        ELSE ExtResult("value", step, lo, hi, v)

\* Mutant: only the empty string is refused; white space goes on to the
\* extraction steps.
extract_json_unstripped_check(raw) ==
    IF raw = <<>> THEN ExtResult("empty", 0, 0, 0, "none")
    ELSE LET t == StripText(raw)
             m1 == SearchFenced(t, 1)
             m2 == SearchBraces(t)
         IN  IF m1.found THEN Parsed(t, 1, m1.lo, m1.hi)
             ELSE IF m2.found THEN Parsed(t, 2, m2.lo, m2.hi)
             ELSE Parsed(t, 3, 1, Len(t))

\* Mutant: the brace span is looked for before the fenced block.
extract_json_braces_first(raw) ==
    IF raw = <<>> \/ StripText(raw) = <<>> THEN ExtResult("empty", 0, 0, 0, "none")
    ELSE LET t == StripText(raw)
             m1 == SearchFenced(t, 1)
             m2 == SearchBraces(t)
         IN  IF m2.found THEN Parsed(t, 2, m2.lo, m2.hi)
             ELSE IF m1.found THEN Parsed(t, 1, m1.lo, m1.hi)
             ELSE Parsed(t, 3, 1, Len(t))

extract_json(raw) ==
    IF raw = <<>> \/ StripText(raw) = <<>> THEN ExtResult("empty", 0, 0, 0, "none")
    ELSE LET t == StripText(raw)
             m1 == SearchFenced(t, 1)
             m2 == SearchBraces(t)
         IN  IF m1.found THEN Parsed(t, 1, m1.lo, m1.hi)
             ELSE IF m2.found THEN Parsed(t, 2, m2.lo, m2.hi)
             ELSE Parsed(t, 3, 1, Len(t))

NoExtOut == ExtResult("none", 0, 0, 0, "none")

---------------------------------------------------------------------------
(* estimate_macros_from_text (src/app.py and src/agent/agent.py hold the   *)
(* same code)                                                              *)
(*                                                                         *)
(* A response of the model is its content, a token sequence as above, and  *)
(* the object its braces enclose: between "{" and "}" stand the members    *)
(* of that object, which hold no fence. A response may also fail to        *)
(* arrive (llm.invoke raises).                                             *)

NutrientKeys == {"carbs_g", "calories_kcal", "protein_g", "fat_g"}

\* A JSON value under a nutrient key: no such key, null, a number, a string
\* float() reads as the number v, or a string float() refuses.
FieldAbsent == [t |-> "absent", v |-> 0]
FieldNull == [t |-> "null", v |-> 0]
FieldNum(v) == [t |-> "num", v |-> v]
FieldNumStr(v) == [t |-> "numstr", v |-> v]
FieldBadStr == [t |-> "badstr", v |-> 0]

\* 25.0, -5.0, "12.5", "abc"
FieldVals ==
    {FieldAbsent, FieldNull, FieldNum(2500), FieldNum(0 - 500),
     FieldNumStr(1250), FieldBadStr}

\* The value under "item_name": no such key, null, "" or a name.
NameVals == {"<absent>", "<null>", "", "apple"}

\* The value under "nutrients": no such key, null, a falsy value that is
\* no dict ([] or 0), a truthy value that is no dict ([1] or "x"), or a
\* dict.
NoFields == [k \in NutrientKeys |-> FieldAbsent]
ModelObjects ==
    {[item_name |-> n, nutrients |-> [t |-> t, f |-> NoFields]] :
        n \in NameVals, t \in {"absent", "null", "falsy", "other"}}
    \cup {[item_name |-> n, nutrients |-> [t |-> "dict", f |-> f]] :
        n \in NameVals, f \in [NutrientKeys -> FieldVals]}

\* Mutant: a number written as a string is taken for not coercible.
Coerce_refusing_strings(x) ==
    IF x.t = "num" THEN x.v ELSE 0

\* float(nutrients.get(k, 0) or 0), with 0.0 when float() raises
Coerce(x) ==
    IF x.t = "absent" THEN 0                 \* get's default
    ELSE IF x.t = "null" THEN 0              \* None or 0
    ELSE IF x.t = "num" THEN x.v             \* float(v); 0 or 0 is 0
    ELSE IF x.t = "numstr" THEN x.v          \* float("12.5")
    ELSE 0                                   \* ValueError: 0.0

EstRaise(why) ==
    [kind |-> "raise", why |-> why, item_name |-> "", nutrients |-> [k \in NutrientKeys |-> 0]]
EstRecord(name, nutrients) ==
    [kind |-> "record", why |-> "", item_name |-> name, nutrients |-> nutrients]
NoEstOut ==
    [kind |-> "none", why |-> "", item_name |-> "", nutrients |-> [k \in NutrientKeys |-> 0]]

\* x or y for strings
Or(x, y) == IF x = "" THEN y ELSE x

\* The lines after extract_json: the nutrients are coerced, the name is
\* defaulted.
Normalize(data, desc) ==
    IF data.nutrients.t = "other" THEN EstRaise("TypeError")
    ELSE LET given == IF data.nutrients.t = "dict" THEN data.nutrients.f ELSE NoFields
             name == IF data.item_name \in {"<absent>", "<null>"} THEN ""
                     ELSE data.item_name
         IN  EstRecord(Or(name, Or(desc, "unknown")),
                       [k \in NutrientKeys |-> Coerce(given[k])])

LlmError == [error |-> TRUE, content |-> <<>>, object |-> CHOOSE o \in ModelObjects : TRUE]
LlmResponse(content, object) == [error |-> FALSE, content |-> content, object |-> object]

NoEstIn == [desc |-> "", resp |-> LlmError]

estimate_macros_from_text(resp, desc) ==
    IF resp.error THEN EstRaise("llm.invoke")
    ELSE LET r == extract_json(resp.content)
         IN  IF r.kind = "empty" THEN EstRaise("Empty model output.")
             ELSE IF r.kind = "parse_error" THEN EstRaise("JSONDecodeError")
             ELSE IF r.type # "object" THEN EstRaise("AttributeError")   \* data.get
             ELSE Normalize(resp.object, desc)

---------------------------------------------------------------------------
(* SpecLog                                                                 *)

NoLogOut == [op |-> "none", date |-> 0, ok |-> FALSE,
             raised |-> FALSE, val |-> 0, budget |-> 0]

\* Entries a meal log written by hand or by an earlier run may hold.

Without(m, f) == [g \in (DOMAIN m) \ {f} |-> m[g]]

\* The entry shape app.py reads from the same meal_log.json (load_meals_df):
\* none of MealEntry's required keys, and keys MealEntry does not know.
AppEntry ==
    [ts |-> 1, user_id |-> "u1", item_name |-> "rice", source |-> "text",
     nutrients |-> [carbs_g |-> Num(1000)]]

InitEntries ==
    {asdict(MealEntry(1, Num(c))) : c \in CarbVals}
    \cup {asdict(MealEntry(1, NotNum)),
          Without(asdict(MealEntry(1, Num(1000))), "total_carbs"),
          Without(asdict(MealEntry(1, Num(1000))), "notes"),
          AppEntry}

\* A log that already fills the window get_daily_carbs_total reads.
FullLog == [i \in 1 .. DefaultDays * MealsPerDay |-> asdict(MealEntry(1, Num(1000)))]

InitLog ==
    /\ \E f \in {AbsentFile, CorruptFile, ListFile(<<>>), ListFile(FullLog)}
            \cup {ListFile(<<e>>) : e \in InitEntries} :
          /\ mealFile = f
          /\ mealBy = [i \in 1 .. Len(f.items) |-> "u1"]
    /\ today = 1
    /\ appends = 0
    /\ logOut = NoLogOut
    /\ sugarFile = AbsentFile
    /\ profileFile = AbsentProfile
    /\ profOut = NoProfOut
    /\ text = <<>>
    /\ extOut = NoExtOut
    /\ entry = "none"
    /\ apiKey = "absent"
    /\ pc = "idle"
    /\ constructs = 0
    /\ requests = 0
    /\ estOut = NoEstOut
    /\ estIn = NoEstIn
    /\ messages = <<>>
    /\ user_input = ""

LogMeal(u, c) ==
    /\ appends < MaxAppends
    /\ LET r == log_meal(mealFile, MealEntry(today, Num(c)))
       IN  /\ mealFile' = r.file
           /\ mealBy' = IF r.ok THEN Append(mealBy, u) ELSE mealBy
           /\ logOut' = [NoLogOut EXCEPT !.op = "log_meal", !.date = today,
                                         !.ok = r.ok, !.val = c]
    /\ appends' = appends + 1
    /\ UNCHANGED <<today, sugarFile, profVars, extVars, llmVars>>

GetDailyCarbsTotal(d) ==
    /\ LET r == get_daily_carbs_total(mealFile, d)
       IN  logOut' = [NoLogOut EXCEPT !.op = "total", !.date = d,
                                      !.raised = r.raised, !.val = r.v]
    /\ UNCHANGED <<mealFile, mealBy, today, appends, sugarFile, profVars, extVars,
                   llmVars>>

GetCarbBudgetRemaining(b) ==
    /\ LET r == get_carb_budget_remaining(mealFile, today, b)
       IN  logOut' = [NoLogOut EXCEPT !.op = "remaining",
                                      !.date = today, !.budget = b,
                                      !.raised = r.raised, !.val = r.v]
    /\ UNCHANGED <<mealFile, mealBy, today, appends, sugarFile, profVars, extVars,
                   llmVars>>

\* Midnight passes.
Tick ==
    /\ today < MaxDay
    /\ today' = today + 1
    /\ UNCHANGED <<mealFile, mealBy, appends, logOut, sugarFile, profVars, extVars,
                   llmVars>>

NextLog ==
    \/ \E u \in Users, c \in CarbVals : LogMeal(u, c)
    \/ \E d \in Days : GetDailyCarbsTotal(d)
    \/ \E b \in Budgets : GetCarbBudgetRemaining(b)
    \/ Tick

SpecLog == InitLog /\ [][NextLog]_vars

---------------------------------------------------------------------------
(* SpecAppend: appends to the meal log and to the blood-sugar log          *)

\* glucose_level values a caller logs: -10, 0, 95 and 120 mg/dL
Glucoses == {0 - 10, 0, 95, 120}

InitSugar == {BloodSugarEntry(1, 95)}

InitAppend ==
    /\ \E f \in {AbsentFile, CorruptFile, ListFile(<<>>)}
            \cup {ListFile(<<e>>) : e \in InitEntries} :
          /\ mealFile = f
          /\ mealBy = [i \in 1 .. Len(f.items) |-> "u1"]
    /\ sugarFile \in {AbsentFile, CorruptFile, ListFile(<<>>)}
                     \cup {ListFile(<<e>>) : e \in InitSugar}
    /\ today = 1
    /\ appends = 0
    /\ logOut = NoLogOut
    /\ profileFile = AbsentProfile
    /\ profOut = NoProfOut
    /\ text = <<>>
    /\ extOut = NoExtOut
    /\ entry = "none"
    /\ apiKey = "absent"
    /\ pc = "idle"
    /\ constructs = 0
    /\ requests = 0
    /\ estOut = NoEstOut
    /\ estIn = NoEstIn
    /\ messages = <<>>
    /\ user_input = ""

LogBloodSugar(g) ==
    /\ appends < MaxAppends
    /\ LET r == log_blood_sugar(sugarFile, BloodSugarEntry(today, g))
       IN  /\ sugarFile' = r.file
           /\ logOut' = [NoLogOut EXCEPT !.op = "log_blood_sugar", !.date = today,
                                         !.ok = r.ok, !.val = g]
    /\ appends' = appends + 1
    /\ UNCHANGED <<mealFile, mealBy, today, profVars, extVars, llmVars>>

NextAppend ==
    \/ \E u \in Users, c \in CarbVals : LogMeal(u, c)
    \/ \E g \in Glucoses : LogBloodSugar(g)

SpecAppend == InitAppend /\ [][NextAppend]_vars

---------------------------------------------------------------------------
(* SpecProfile                                                             *)

ValidProfiles ==
    {UserProfile(u, b) : u \in {u \in UserIds : Strip(u) # ""},
                         b \in {b \in BudgetInputs : Gt(b, 0)}}

InitProfile ==
    /\ profileFile \in {AbsentProfile, InvalidJsonProfile, WrongKeysProfile}
                       \cup {StoredProfile(p) : p \in ValidProfiles}
    /\ profOut = NoProfOut
    /\ mealFile = AbsentFile
    /\ mealBy = <<>>
    /\ today = 1
    /\ appends = 0
    /\ logOut = NoLogOut
    /\ sugarFile = AbsentFile
    /\ text = <<>>
    /\ extOut = NoExtOut
    /\ entry = "none"
    /\ apiKey = "absent"
    /\ pc = "idle"
    /\ constructs = 0
    /\ requests = 0
    /\ estOut = NoEstOut
    /\ estIn = NoEstIn
    /\ messages = <<>>
    /\ user_input = ""

LoadUserProfile ==
    /\ LET r == load_user_profile(profileFile)
       IN  profOut' = [op |-> "load", ret |-> r.ret, profile |-> r.profile]
    /\ UNCHANGED <<profileFile, logVars, extVars, llmVars>>

SaveUserProfile(p) ==
    /\ LET r == save_user_profile(profileFile, p)
       IN  /\ profileFile' = r.file
           /\ profOut' = [op |-> "save",
                          ret |-> IF r.raised THEN "raise" ELSE "none",
                          profile |-> p]
    /\ UNCHANGED <<logVars, extVars, llmVars>>

GetOrCreateUserProfile(uid, budget) ==
    /\ LET r == get_or_create_user_profile(profileFile, uid, budget)
       IN  /\ profileFile' = r.file
           /\ profOut' = [op |-> "get_or_create", ret |-> r.ret, profile |-> r.profile]
    /\ UNCHANGED <<logVars, extVars, llmVars>>

NextProfile ==
    \/ LoadUserProfile
    \/ \E u \in UserIds, b \in BudgetInputs : SaveUserProfile(UserProfile(u, b))
    \/ \E u \in UserIds, b \in BudgetInputs : GetOrCreateUserProfile(u, b)

SpecProfile == InitProfile /\ [][NextProfile]_vars

---------------------------------------------------------------------------
(* Claims about the Profile Store, checked under SpecProfile               *)

LoadAsked == profOut.op = "load"

SaveAsked == profOut.op = "save"
ValidIdentity(uid) == Strip(uid) # ""

\* C12: save_user_profile called with an empty or blank user_id, or with
\* carb_budget <= 0, raises and leaves the profile file exactly as it was,
\* so that the file, once it holds a profile, holds one with a non-empty
\* identity and a budget > 0.
C12_SaveValidatesBeforeWrite ==
    /\ [][(profOut'.op = "save"
            /\ (~ValidIdentity(profOut'.profile.user_id)
                \/ Leq(profOut'.profile.carb_budget, 0)))
          => (profOut'.ret = "raise" /\ profileFile' = profileFile)]_vars
    /\ [](profileFile.kind = "profile"
          => /\ ValidIdentity(profileFile.profile.user_id)
             /\ Gt(profileFile.profile.carb_budget, 0))

---------------------------------------------------------------------------
(* SpecExtract: extract_json applied to every model output of the bound    *)

RECURSIVE Texts(_)
Texts(n) ==
    IF n = 0 THEN {<<>>}
    ELSE LET shorter == Texts(n - 1)
         IN  shorter \cup {Append(t, k) : t \in {u \in shorter : Len(u) = n - 1},
                                          k \in Tokens}

InitExtract ==
    /\ text \in Texts(MaxTextLen)
    /\ extOut = NoExtOut
    /\ mealFile = AbsentFile
    /\ mealBy = <<>>
    /\ today = 1
    /\ appends = 0
    /\ logOut = NoLogOut
    /\ sugarFile = AbsentFile
    /\ profileFile = AbsentProfile
    /\ profOut = NoProfOut
    /\ entry = "none"
    /\ apiKey = "absent"
    /\ pc = "idle"
    /\ constructs = 0
    /\ requests = 0
    /\ estOut = NoEstOut
    /\ estIn = NoEstIn
    /\ messages = <<>>
    /\ user_input = ""

ExtractJson ==
    /\ extOut = NoExtOut
    /\ extOut' = extract_json(text)
    /\ UNCHANGED <<text, logVars, profVars, llmVars>>

NextExtract == ExtractJson

SpecExtract == InitExtract /\ [][NextExtract]_vars

---------------------------------------------------------------------------
(* SpecLLM: the scripts that talk to the LLM provider                      *)

EntryPoints == {"app", "agent", "langchain_agent", "list_models"}
\* os.getenv("GEMINI_API_KEY"): None, "" or a key
Keys == {"absent", "empty", "set"}
\* "not api_key"
Missing(key) == key \in {"absent", "empty"}

\* Food descriptions typed into the form, already stripped.
Descs == {"rice", "1 banana"}

\* Contents the model answers with: nothing, white space, prose, a bare
\* scalar, a bare object, a fenced object, a cut-off object.
Contents ==
    {<<>>, <<" ">>, <<"n", " ", "n">>, <<"n">>, <<"{", "}">>,
     <<"FJ", " ", "{", "}", " ", "F">>, <<"{">>}

Responses ==
    {LlmError}
    \cup {LlmResponse(c, CHOOSE o \in ModelObjects : TRUE) :
            c \in {c \in Contents : extract_json(c).type # "object"}}
    \cup {LlmResponse(c, o) :
            c \in {c \in Contents : extract_json(c).type = "object"},
            o \in ModelObjects}

InitLLM ==
    /\ entry \in EntryPoints
    /\ apiKey \in Keys
    /\ pc = "start"
    /\ constructs = 0
    /\ requests = 0
    /\ estOut = NoEstOut
    /\ estIn = NoEstIn
    /\ messages = <<>>
    /\ user_input = ""
    /\ mealFile = AbsentFile
    /\ mealBy = <<>>
    /\ today = 1
    /\ appends = 0
    /\ logOut = NoLogOut
    /\ sugarFile = AbsentFile
    /\ profileFile = AbsentProfile
    /\ profOut = NoProfOut
    /\ text = <<>>
    /\ extOut = NoExtOut

\* The constructor of the provider's client was handed no key: whether it
\* raises or builds a client is the library's business.
ConstructUnchecked(next) ==
    /\ constructs' = constructs + 1
    /\ IF Missing(apiKey) THEN pc' \in {next, "library_error"} ELSE pc' = next

\* app.py: without a stored profile the script stops at the profile form.
AppNoProfile ==
    /\ entry = "app" /\ pc = "start"
    /\ pc' = "no_profile"
    /\ UNCHANGED <<entry, apiKey, constructs, requests, estOut, estIn, chatVars, logVars, profVars, extVars>>

\* app.py, get_llm: the key is checked, then the client is built.
AppGetLlm ==
    /\ entry = "app" /\ pc = "start"
    /\ IF Missing(apiKey)
       THEN pc' = "config_error" /\ UNCHANGED constructs
       ELSE pc' = "ready" /\ constructs' = constructs + 1
    /\ UNCHANGED <<entry, apiKey, requests, estOut, estIn, chatVars, logVars, profVars, extVars>>

\* agent/agent.py, get_llm: the client is built with whatever getenv gave.
AgentGetLlm ==
    /\ entry = "agent" /\ pc = "start"
    /\ ConstructUnchecked("ready")
    /\ UNCHANGED <<entry, apiKey, requests, estOut, estIn, chatVars, logVars, profVars, extVars>>

\* agent/langchain_agent.py, at import: the key is checked, then the
\* client is built.
ChatInitLlm ==
    /\ entry = "langchain_agent" /\ pc = "start"
    /\ IF Missing(apiKey)
       THEN pc' = "config_error" /\ UNCHANGED constructs
       ELSE pc' = "ready" /\ constructs' = constructs + 1
    /\ UNCHANGED <<entry, apiKey, requests, estOut, estIn, chatVars, logVars, profVars, extVars>>

\* list_models.py: genai.Client(api_key=os.getenv(...))
ListModelsClient ==
    /\ entry = "list_models" /\ pc = "start"
    /\ ConstructUnchecked("client")
    /\ UNCHANGED <<entry, apiKey, requests, estOut, estIn, chatVars, logVars, profVars, extVars>>

\* list_models.py: client.models.list()
ListModelsRequest ==
    /\ entry = "list_models" /\ pc = "client"
    /\ requests' = requests + 1
    /\ pc' = "done"
    /\ UNCHANGED <<entry, apiKey, constructs, estOut, estIn, chatVars, logVars, profVars, extVars>>

\* app.py and agent/agent.py: estimate_macros_from_text(llm, desc)
Estimate(desc, resp) ==
    /\ entry \in {"app", "agent"} /\ pc = "ready"
    /\ requests < MaxRequests
    /\ requests' = requests + 1
    /\ estOut' = estimate_macros_from_text(resp, desc)
    /\ estIn' = [desc |-> desc, resp |-> resp]
    /\ pc' = "estimated"
    /\ UNCHANGED <<entry, apiKey, constructs, chatVars, logVars, profVars, extVars>>

\* The form handler is over and the script runs again: the client is
\* cached, the estimate was a local of the handler.
Rerun ==
    /\ entry \in {"app", "agent"} /\ pc = "estimated"
    /\ pc' = "ready"
    /\ estOut' = NoEstOut
    /\ estIn' = NoEstIn
    /\ UNCHANGED <<entry, apiKey, constructs, requests, chatVars, logVars, profVars,
                   extVars>>

\* agent/langchain_agent.py, run_agent: the history starts with the
\* system prompt.
SystemMessage == [role |-> "system", content |-> "prompt"]
HumanMessage(content) == [role |-> "human", content |-> content]
AIMessage == [role |-> "ai", content |-> "reply"]

RunAgent ==
    /\ entry = "langchain_agent" /\ pc = "ready"
    /\ pc' = "chat"
    /\ messages' = <<SystemMessage>>
    /\ UNCHANGED <<entry, apiKey, constructs, requests, estOut, estIn, user_input,
                   logVars, profVars, extVars>>

\* Lines typed at the prompt: nothing, a blank, the three commands, a
\* command in capitals, two questions.
UserInputs == {"", " ", "exit", "EXIT", "profile", "tips", "hello", "carbs?"}

\* str.lower() of the lines of the model
Lower(line) == IF line = "EXIT" THEN "exit" ELSE line

\* One pass of the while loop: the line is read and stripped; an empty
\* line and the commands are answered without the model; any other line
\* is appended to the history and sent, and the response is appended when
\* llm.invoke returns. raises: llm.invoke raised, which the loop catches.
ChatTurn(line, raises) ==
    /\ entry = "langchain_agent" /\ pc = "chat"
    /\ user_input' = Strip(line)
    /\ IF Strip(line) = "" \/ Lower(Strip(line)) \in {"profile", "tips"}
       THEN UNCHANGED <<pc, messages, requests>>
       ELSE IF Lower(Strip(line)) = "exit"
       THEN pc' = "done" /\ UNCHANGED <<messages, requests>>
       ELSE /\ requests < MaxRequests
            /\ requests' = requests + 1
            /\ pc' = pc
            /\ messages' = IF raises
                           THEN Append(messages, HumanMessage(Strip(line)))
                           ELSE Append(Append(messages, HumanMessage(Strip(line))),
                                       AIMessage)
    /\ UNCHANGED <<entry, apiKey, constructs, estOut, estIn, logVars, profVars, extVars>>

NextLLM ==
    \/ AppNoProfile
    \/ AppGetLlm
    \/ AgentGetLlm
    \/ ChatInitLlm
    \/ ListModelsClient
    \/ ListModelsRequest
    \/ (pc = "ready" /\ \E d \in Descs, r \in Responses : Estimate(d, r))
    \/ Rerun
    \/ RunAgent
    \/ (pc = "chat" /\ \E line \in UserInputs, raises \in BOOLEAN : ChatTurn(line, raises))

SpecLLM == InitLLM /\ [][NextLLM]_vars

---------------------------------------------------------------------------
(* SpecFlow: the "Log a meal" form of app.py and agent/agent.py            *)
(*                                                                         *)
(* The handler calls log_meal(user_id, item_name, nutrients, source=...),  *)
(* a function of the tools module that the scripts import but that is not  *)
(* among the sources; append_meal models it as the specification           *)
(* describes it, with the entry that load_meals_df reads back.             *)

\* What is typed into the form: nothing, a blank, two descriptions.
FoodTexts == {"", " ", "rice", "1 banana"}

\* The profile's user_id.
FlowUser == "u1"

AppMealEntry(ts, user, item, nutrients, source) ==
    [ts |-> ts, user_id |-> user, item_name |-> item, source |-> source,
     nutrients |-> nutrients]

\* Append entry: the stored collection (empty when the file is absent or
\* does not parse) followed by the new entry, written back whole.
append_meal(file, e) ==
    IF file.kind = "list" THEN ListFile(Append(file.items, e))
    ELSE ListFile(<<e>>)

\* Model objects of the form's requests: a named and an unnamed one, with
\* nutrients that make the estimate raise, that are missing, positive or
\* partly negative.
FlowObjects ==
    {[item_name |-> n, nutrients |-> [t |-> t, f |-> NoFields]] :
        n \in {"<absent>", "apple"}, t \in {"absent", "other"}}
    \cup {[item_name |-> n, nutrients |-> [t |-> "dict", f |-> f]] :
        n \in {"<absent>", "apple"},
        f \in {[k \in NutrientKeys |-> FieldNum(2500)],
               [k \in NutrientKeys |->
                   IF k = "carbs_g" THEN FieldNum(0 - 500) ELSE FieldBadStr]}}

FlowResponses == {r \in Responses : r.object \in FlowObjects}

\* What the handler leaves behind: the log file, what the page shows,
\* the estimate and whether the model was asked.
FlowResult(file, shown, est, asked) ==
    [file |-> file, shown |-> shown, est |-> est, asked |-> asked]

\* Mutant: the meal is logged under the description before the estimate
\* is asked for.
log_form_submit_logging_first(file, food_text, resp, ts, written) ==
    IF Strip(food_text) = "" THEN FlowResult(file, "warning", NoEstOut, FALSE)
    ELSE LET est == estimate_macros_from_text(resp, Strip(food_text))
             e == AppMealEntry(ts, FlowUser, Strip(food_text),
                               [k \in NutrientKeys |-> 0], "text")
         IN  IF ~written THEN FlowResult(file, "error", est, TRUE)
             ELSE IF est.kind = "raise"
                 THEN FlowResult(append_meal(file, e), "error", est, TRUE)
             ELSE FlowResult(append_meal(file, e), "success", est, TRUE)

\* if submitted: a blank description is answered with a warning; else the
\* estimate is made and then logged, and any exception of either is shown
\* as "Could not log meal". written: the write of the log file succeeded.
log_form_submit(file, food_text, resp, ts, written) ==
    IF Strip(food_text) = "" THEN FlowResult(file, "warning", NoEstOut, FALSE)
    ELSE LET est == estimate_macros_from_text(resp, Strip(food_text))
         IN  IF est.kind = "raise" THEN FlowResult(file, "error", est, TRUE)
             ELSE IF ~written THEN FlowResult(file, "error", est, TRUE)
             ELSE FlowResult(
                     append_meal(file, AppMealEntry(ts, FlowUser, est.item_name,
                                                    est.nutrients, "text")),
                     "success", est, TRUE)

FlowEntries ==
    {AppMealEntry(1, u, "apple", [k \in NutrientKeys |-> 2500], "text") :
        u \in Users}

InitFlow ==
    /\ entry \in {"app", "agent"}
    /\ apiKey = "set"
    /\ pc = "ready"
    /\ constructs = 1
    /\ requests = 0
    /\ estOut = NoEstOut
    /\ estIn = NoEstIn
    /\ messages = <<>>
    /\ user_input = ""
    /\ mealFile \in {AbsentFile, CorruptFile, ListFile(<<>>)}
                    \cup {ListFile(<<e>>) : e \in FlowEntries}
    /\ mealBy = <<>>
    /\ today = 1
    /\ appends = 0
    /\ logOut = NoLogOut
    /\ sugarFile = AbsentFile
    /\ profileFile = AbsentProfile
    /\ profOut = NoProfOut
    /\ text = <<>>
    /\ extOut = NoExtOut

LogFormSubmit(food_text, resp, written) ==
    /\ pc = "ready"
    /\ requests < MaxRequests
    /\ LET r == log_form_submit(mealFile, food_text, resp, today, written)
       IN  /\ mealFile' = r.file
           /\ pc' = r.shown
           /\ estOut' = r.est
           /\ estIn' = IF r.asked THEN [desc |-> Strip(food_text), resp |-> resp]
                       ELSE NoEstIn
           /\ requests' = IF r.asked THEN requests + 1 ELSE requests
    /\ UNCHANGED <<entry, apiKey, constructs, chatVars, mealBy, today, appends, logOut,
                   sugarFile,
                   profVars, extVars>>

\* The script runs again and draws the page anew.
FlowRerun ==
    /\ pc \in {"warning", "error", "success"}
    /\ pc' = "ready"
    /\ estOut' = NoEstOut
    /\ estIn' = NoEstIn
    /\ UNCHANGED <<entry, apiKey, constructs, requests, chatVars, logVars, profVars,
                   extVars>>

NextFlow ==
    \/ (pc = "ready" /\ \E t \in FoodTexts, r \in FlowResponses, w \in BOOLEAN :
            LogFormSubmit(t, r, w))
    \/ FlowRerun

SpecFlow == InitFlow /\ [][NextFlow]_vars

---------------------------------------------------------------------------
(* Claims about the "Log a meal" form, checked under SpecFlow              *)

---------------------------------------------------------------------------
(* Claims about the entry points and the estimate, checked under SpecLLM   *)

\* C1: estimate_macros_from_text raises, or returns a record whose four
\* nutrient fields are numbers >= 0 and whose item_name is not empty; a
\* negative value in the response never comes back in the record.
C1_RecordIsNonNegative ==
    estOut.kind = "record" =>
        /\ estOut.item_name # ""
        /\ \A k \in NutrientKeys : estOut.nutrients[k] >= 0

\* The model object of the last estimate and the four values it gives.
EstObject == estIn.resp.object
EstGiven ==
    IF EstObject.nutrients.t = "dict" THEN EstObject.nutrients.f
    ELSE [k \in NutrientKeys |-> FieldAbsent]
EstReturned == estOut.kind = "record"

Alternates(msgs) ==
    /\ Len(msgs) >= 1 /\ Len(msgs) % 2 = 1
    /\ msgs[1].role = "system"
    /\ \A i \in 2 .. Len(msgs) :
          msgs[i].role = (IF i % 2 = 0 THEN "human" ELSE "ai")

\* C15: in run_agent the history is, after every pass of the loop, the
\* system message followed by user message / response pairs, also after a
\* pass in which llm.invoke raised; exit, profile, tips and an empty line
\* leave the history as it was and send nothing to the model.
C15_HistoryKeepsShape ==
    /\ []((entry = "langchain_agent" /\ pc \in {"chat", "done"})
            => Alternates(messages))
    /\ [][(entry = "langchain_agent" /\ pc = "chat"
            /\ (user_input' = "" \/ Lower(user_input') \in {"exit", "profile", "tips"}))
          => (messages' = messages /\ requests' = requests)]_vars

\* C7: with the credential absent every script stops with a configuration
\* error before a client is built or a request is sent.
C7_FailFastWithoutKey ==
    apiKey = "absent" =>
        /\ constructs = 0
        /\ requests = 0
        /\ pc \in {"start", "no_profile", "config_error"}

---------------------------------------------------------------------------
(* Claims about extract_json, checked under SpecExtract                    *)

Extracted == extOut # NoExtOut
Blank(t) == \A i \in 1 .. Len(t) : t[i] = " "

\* C9: on an empty or white-space-only input extract_json raises "Empty
\* model output." and not a JSON parse error, and none of the three
\* extraction steps is tried.
C9_EmptyCheckedFirst ==
    (Extracted /\ Blank(text)) => (extOut.kind = "empty" /\ extOut.step = 0)

C9_Witness ==
    /\ Extracted
    /\ Len(text) >= 2
    /\ Blank(text)
    /\ extOut.kind = "empty"

\* The trimmed text the three steps work on.
Trimmed == StripText(text)

\* Positions i < p < q of t: a fence labelled json at i, then only white
\* space up to a "{" at p, and a "}" at q followed by only white space up
\* to a fence.
IsFencedSpan(t, i, p, q) ==
    /\ t[i] \in JsonFences
    /\ i < p /\ p < q /\ q < Len(t)
    /\ t[p] = "{"
    /\ t[q] = "}"
    /\ \A j \in (i + 1) .. (p - 1) : t[j] = " "
    /\ \E r \in (q + 1) .. Len(t) :
          /\ t[r] \in Fences
          /\ \A j \in (q + 1) .. (r - 1) : t[j] = " "

FencedFrom(t, i) ==
    /\ t[i] \in JsonFences
    /\ \E p \in (i + 1) .. Len(t) :
          /\ t[p] = "{"
          /\ \E q \in (p + 1) .. Len(t) : IsFencedSpan(t, i, p, q)

HasFenced(t) == \E i \in 1 .. Len(t) : FencedFrom(t, i)

HasBraceSpan(t) ==
    \E p \in 1 .. Len(t), q \in 1 .. Len(t) : p < q /\ t[p] = "{" /\ t[q] = "}"

\* The result is what json.loads makes of the span lo..hi of t.
IsParseOf(t, lo, hi) ==
    LET v == json_loads(SubSeq(t, lo, hi))
    IN  IF v = "error" THEN extOut.kind = "parse_error"
        ELSE extOut.kind = "value" /\ extOut.type = v

---------------------------------------------------------------------------
(* Claims about the Log Store, checked under SpecLog                       *)

\* Every stored entry has MealEntry's keys, a day as timestamp and a
\* numeric total_carbs.
WellFormed(m) ==
    /\ CanConstruct(m)
    /\ m.total_carbs.num

AllWellFormed == \A i \in 1 .. Len(mealFile.items) : WellFormed(mealFile.items[i])
WithinWindow == Len(mealFile.items) <= DefaultDays * MealsPerDay

\* What entry i contributes to day d when a bad field counts as 0.
Contribution(m, d) ==
    IF /\ {"timestamp", "total_carbs"} \subseteq DOMAIN m
       /\ m.timestamp = d
       /\ m.total_carbs.num
    THEN m.total_carbs.v ELSE 0

RECURSIVE DaySum(_, _, _)
DaySum(items, d, n) ==
    IF n = 0 THEN 0 ELSE DaySum(items, d, n - 1) + Contribution(items[n], d)

RECURSIVE OwnedSum(_, _, _, _, _)
OwnedSum(items, by, u, d, n) ==
    IF n = 0 THEN 0
    ELSE OwnedSum(items, by, u, d, n - 1)
         + (IF by[n] = u THEN Contribution(items[n], d) ELSE 0)

TotalAsked == logOut.op = "total"

\* Every stored entry was appended by a log_meal call of this run.
BuiltByAppends == mealFile.kind = "list" /\ Len(mealFile.items) = appends

\* C2: today's total computed for user u1 is the sum over exactly the
\* entries logged for u1 on that day, whatever u2 logged. (Stated for logs
\* built by log_meal alone that fit the history window, so that only the
\* ownership of the entries is at stake.)
C2_TotalIsPerUser ==
    (TotalAsked /\ logOut.date = today /\ BuiltByAppends /\ AllWellFormed
                /\ WithinWindow)
        => /\ ~logOut.raised
           /\ logOut.val = OwnedSum(mealFile.items, mealBy, "u1",
                                    logOut.date, Len(mealFile.items))

C4_MalformedEntryTolerated ==
    (TotalAsked /\ mealFile.kind = "list" /\ WithinWindow)
        => /\ ~logOut.raised
           /\ logOut.val = DaySum(mealFile.items, logOut.date, Len(mealFile.items))

\* C5: the total of a day is the sum over all entries of that day, for a
\* log of any length. (Stated for logs of well-formed entries.)
C5_TotalCoversWholeLog ==
    (TotalAsked /\ AllWellFormed)
        => /\ ~logOut.raised
           /\ logOut.val = DaySum(mealFile.items, logOut.date, Len(mealFile.items))

RemainingAsked == logOut.op = "remaining" /\ ~logOut.raised
Consumed == get_daily_carbs_total(mealFile, logOut.date).v

---------------------------------------------------------------------------
(* Claims about both logs, checked under SpecAppend                        *)

\* The collection a log file stores: none while the file is absent.
Stored(file) == IF file.kind = "list" THEN file.items ELSE <<>>

\* C14: a log_meal or log_blood_sugar call that returns True leaves the
\* stored collection equal to the previous one followed by the one new
\* entry, so that earlier entries stay, unmodified and in insertion order;
\* a call that returns False leaves the file as it was. Neither call
\* touches the other log.
C14_LogsAreAppendOnly ==
    [][(appends' = appends + 1) =>
          LET meal == asdict(MealEntry(today, Num(logOut'.val)))
              reading == BloodSugarEntry(today, logOut'.val)
          IN  /\ logOut'.op = "log_meal" =>
                    /\ sugarFile' = sugarFile
                    /\ IF logOut'.ok
                          THEN /\ mealFile'.kind = "list"
                               /\ mealFile'.items = Stored(mealFile) \o <<meal>>
                          ELSE mealFile' = mealFile
              /\ logOut'.op = "log_blood_sugar" =>
                    /\ mealFile' = mealFile
                    /\ IF logOut'.ok
                          THEN /\ sugarFile'.kind = "list"
                               /\ sugarFile'.items = Stored(sugarFile) \o <<reading>>
                          ELSE sugarFile' = sugarFile]_vars

\* Both logs hold an earlier entry and, behind it, the one appended since.
C14_Witness ==
    /\ appends = 2
    /\ Len(Stored(mealFile)) = 2 /\ mealFile.items[2].total_carbs = Num(2000)
    /\ Len(Stored(sugarFile)) = 2 /\ sugarFile.items[2].glucose_level = 120
    /\ sugarFile.items[1].glucose_level = 95
    /\ logOut.op = "log_blood_sugar" /\ logOut.ok

=============================================================================
